---------------------------- MODULE Spec2Model ----------------------------
(***************************************************************************)
(* Model of src/code/electra.py: the retrieval-augmentation pipeline       *)
(* (create_augmented_case, augment_with_similar_cases) and the driver      *)
(* do_train_process that filters the splits, builds the retrievers,        *)
(* augments the three splits, encodes the labels and trains/predicts.      *)
(*                                                                         *)
(* A Python string is a sequence of atoms (short strings); concatenation   *)
(* is \o.  An f-string is the concatenation of its literal pieces and its  *)
(* interpolated values.                                                    *)
(*                                                                         *)
(* The retriever (retriever.SimCSE_Retriever) is an external collaborator: *)
(* a call of retrieve_similar_cases either raises or returns a list of     *)
(* dicts, and the outcome of each call is a nondeterministic input.        *)
(***************************************************************************)
EXTENDS Integers, Sequences, FiniteSets, TLC

VARIABLES
    pc,                        \* position of the running function
    feature,                   \* config.feature
    retriever_names,           \* config.retrievers
    eval_only,                 \* config.eval_only
    train_df, dev_df, test_df, \* the three splits of do_train_process
    retrievers_to_use,         \* do_train_process: retrievers built so far
    dfi,                       \* do_train_process: index into dfs_to_process
    df,                        \* augment_with_similar_cases: its df argument
    retrievers,                \* augment_with_similar_cases: its retrievers argument
    i,                         \* index of the row the loop of line 158 is at
    k,                         \* index of the retriever the loop of line 161 is at
    row_similar_cases,
    row_similar_cases_labels,
    all_similar_cases,
    all_augmented_cases,
    all_similar_cases_labels,
    retrieved,                 \* per row of df, the outcome of each retriever call made for it
    label_encoder,             \* classes_ of the LabelEncoder, or Unfitted
    model,                     \* the loaded classifier, or NoValue
    trained,                   \* trainer.train() has run
    predictions,               \* result of trainer.predict, or NoValue
    saved                      \* the outputs_dict dumped by save_results, or NoValue

vars == <<pc, feature, retriever_names, eval_only, train_df, dev_df, test_df,
          retrievers_to_use, dfi, df, retrievers, i, k, row_similar_cases,
          row_similar_cases_labels, all_similar_cases, all_augmented_cases,
          all_similar_cases_labels, retrieved, label_encoder, model, trained,
          predictions, saved>>

augVars == <<df, retrievers, i, k, row_similar_cases, row_similar_cases_labels,
             all_similar_cases, all_augmented_cases, all_similar_cases_labels,
             retrieved>>

driverVars == <<retriever_names, eval_only, train_df, dev_df, test_df,
                retrievers_to_use, dfi, label_encoder, model, trained,
                predictions, saved>>

-----------------------------------------------------------------------------
(* Bounds of the model *)

\* rows of the df handed to augment_with_similar_cases
MaxRows == 2

\* retrievers in the list handed to augment_with_similar_cases, names in config.retrievers
MaxRetrievers == 3

\* retrieve_similar_cases calls of one augment_with_similar_cases call (rows * retrievers)
MaxCalls == 4

\* rows of train.csv, dev.csv and test.csv together
MaxRawRows == 3

\* retrieve_similar_cases calls of one do_train_process run (rows * retriever names)
MaxDriverCalls == 2

-----------------------------------------------------------------------------
(* Values *)

NoValue == "None"
Unfitted == "unfitted"

bad_classes ==
    {"prejudicial language", "fallacy of slippery slope", "slothful induction"}

sep_token == "[SEP]"

TextModes == {"text", "explanations", "goals"}
FeatureModes == {"structure", "counter"}
Modes == TextModes \cup FeatureModes

\* --feature is a free string: "premise" stands for any value outside the five modes
Features == Modes \cup {"premise"}

\* A row of a split: the text, the label and the feature columns of the csv files
\* (the files hold a column for each feature mode).
MkRow(t, l) ==
    [text |-> t, label |-> l,
     explanations |-> <<"explanation of ", t[1]>>,
     goals |-> <<"goal of ", t[1]>>,
     structure |-> <<"structure of ", t[1]>>,
     counter |-> <<"counter of ", t[1]>>]

Texts == {<<"q1">>, <<"q2">>}

\* The dicts a retriever returns hold similar_case and similar_case_label (and a
\* score the code never reads); a dict may lack a key.
ItemA == [similar_case |-> <<"A">>, similar_case_label |-> "ad hominem"]
ItemB == [similar_case |-> <<"B">>, similar_case_label |-> "false causality"]
ItemNoLabel == [similar_case |-> <<"A">>]
ItemNoCase == [similar_case_label |-> "false causality"]

Raised == [raised |-> TRUE]
Returned(items) == [raised |-> FALSE, items |-> items]

\* Outcomes of one retrieve_similar_cases call.
Outcomes ==
    {Raised, Returned(<<>>), Returned(<<ItemB, ItemA>>),
     Returned(<<ItemNoLabel>>), Returned(<<ItemA, ItemNoCase>>)}

SeqsUpTo(S, n) == UNION {[1..m -> S] : m \in 0..n}

\* pd.read_csv numbers the rows of a frame from 0; a row keeps its number when
\* other rows are dropped.
Indexed(rows) ==
    [n \in 1..Len(rows) |->
        [c \in DOMAIN rows[n] \cup {"index"} |-> IF c = "index" THEN n - 1 ELSE rows[n][c]]]

Frames(S, n) == {Indexed(rows) : rows \in SeqsUpTo(S, n)}

-----------------------------------------------------------------------------
(* create_augmented_case, lines 140-149 *)

UnboundLocalError == "UnboundLocalError"
ValueError == "ValueError"

RECURSIVE TextTemplateNoSpace(_, _)
\* the separator without the space before it
TextTemplateNoSpace(augmented_case, similar_cases) ==
    IF similar_cases = <<>> THEN augmented_case
    ELSE TextTemplateNoSpace(augmented_case \o <<sep_token, " ">> \o Head(similar_cases),
                             Tail(similar_cases))

RECURSIVE TextTemplate(_, _)
\* lines 143-144: augmented_case += f" {config.sep_token} " + similar_case
TextTemplate(augmented_case, similar_cases) ==
    IF similar_cases = <<>> THEN augmented_case
    ELSE TextTemplate(augmented_case \o <<" ", sep_token, " ">> \o Head(similar_cases),
                      Tail(similar_cases))

\* the feature value is written once, before the first case only
FeatureTemplateOnce(augmented_case, value, similar_cases) ==
    IF similar_cases = <<>> THEN augmented_case
    ELSE TextTemplate(augmented_case \o <<" ", sep_token, " ">> \o value
                          \o <<" ", sep_token, " ">> \o Head(similar_cases),
                      Tail(similar_cases))

RECURSIVE FeatureTemplate(_, _, _)
\* lines 147-148: augmented_case +=
\*   f" {config.sep_token} {row[config.feature]} {config.sep_token} {similar_case}"
FeatureTemplate(augmented_case, value, similar_cases) ==
    IF similar_cases = <<>> THEN augmented_case
    ELSE FeatureTemplate(augmented_case \o <<" ", sep_token, " ">> \o value
                             \o <<" ", sep_token, " ">> \o Head(similar_cases),
                         value, Tail(similar_cases))

\* the separator is written after the text and then between the cases
create_augmented_case_joined(row, feat, similar_cases) ==
    IF feat \in TextModes
    THEN TextTemplate(row.text \o <<" ", sep_token>>, similar_cases)
    ELSE IF feat \in FeatureModes
    THEN FeatureTemplate(row.text \o <<" ", sep_token>>, row[feat], similar_cases)
    ELSE UnboundLocalError

\* the second branch starts from the feature value instead of the text
create_augmented_case_from_feature(row, feat, similar_cases) ==
    IF feat \in TextModes THEN TextTemplate(row.text, similar_cases)
    ELSE IF feat \in FeatureModes THEN FeatureTemplate(row[feat], row[feat], similar_cases)
    ELSE UnboundLocalError

\* The value returned, or UnboundLocalError when neither branch binds augmented_case.
create_augmented_case(row, feat, similar_cases) ==
    IF feat \in TextModes THEN TextTemplate(row.text, similar_cases)
    ELSE IF feat \in FeatureModes THEN FeatureTemplate(row.text, row[feat], similar_cases)
    ELSE UnboundLocalError

-----------------------------------------------------------------------------
(* augment_with_similar_cases, lines 152-194 *)

HasKey(d, key) == key \in DOMAIN d

\* lines 170-173: the list comprehension reads case_label["similar_case"] of every
\* item; a KeyError leaves the comprehension before extend is called.
CasesReadable(out) ==
    /\ ~out.raised
    /\ \A n \in 1..Len(out.items) : HasKey(out.items[n], "similar_case")

\* lines 176-179, reached only after lines 169-174 succeeded.
LabelsReadable(out) ==
    /\ CasesReadable(out)
    /\ \A n \in 1..Len(out.items) : HasKey(out.items[n], "similar_case_label")

\* the except clause empties the row's list
ClearCasesOnError(cases, out) ==
    IF out.raised THEN <<>>
    ELSE IF CasesReadable(out)
    THEN cases \o [n \in 1..Len(out.items) |-> out.items[n].similar_case]
    ELSE cases

\* a case the row already holds is not added again
ExtendCasesDedup(cases, out) ==
    IF CasesReadable(out)
    THEN cases \o SelectSeq([n \in 1..Len(out.items) |-> out.items[n].similar_case],
                            LAMBDA c : \A n \in 1..Len(cases) : cases[n] # c)
    ELSE cases

\* lines 169-174
ExtendCases(cases, out) ==
    IF CasesReadable(out)
    THEN cases \o [n \in 1..Len(out.items) |-> out.items[n].similar_case]
    ELSE cases

\* lines 175-180
ExtendLabels(labels, out) ==
    IF LabelsReadable(out)
    THEN labels \o [n \in 1..Len(out.items) |-> out.items[n].similar_case_label]
    ELSE labels

\* the accumulator of the previous row is carried into the next one
KeepRowCases == row_similar_cases

\* line 159
NewRowCases == <<>>

\* line 160
NewRowLabels == <<>>

\* lines 161, 182-183: the except clause is inside the loop, which goes on with
\* the next retriever whatever the outcome was.
NextRetriever(out) == k + 1

\* lines 154-156
AugBegin ==
    /\ pc = "aug_call"
    /\ all_similar_cases' = <<>>
    /\ all_augmented_cases' = <<>>
    /\ all_similar_cases_labels' = <<>>
    /\ retrieved' = <<>>
    /\ i' = 1
    /\ pc' = "aug_rows"
    /\ UNCHANGED <<feature, df, retrievers, k, row_similar_cases,
                   row_similar_cases_labels>>
    /\ UNCHANGED driverVars

\* lines 158-160: the next row, or the end of the loop
RowBegin ==
    /\ pc = "aug_rows"
    /\ i <= Len(df)
    /\ row_similar_cases' = NewRowCases
    /\ row_similar_cases_labels' = NewRowLabels
    /\ retrieved' = Append(retrieved, <<>>)
    /\ k' = 1
    /\ pc' = "aug_retrievers"
    /\ UNCHANGED <<feature, df, retrievers, i, all_similar_cases,
                   all_augmented_cases, all_similar_cases_labels>>
    /\ UNCHANGED driverVars

\* lines 161-183: one iteration of the loop over the retrievers
Retrieve ==
    /\ pc = "aug_retrievers"
    /\ k <= Len(retrievers)
    /\ \E out \in Outcomes :
         /\ row_similar_cases' = ExtendCases(row_similar_cases, out)
         /\ row_similar_cases_labels' = ExtendLabels(row_similar_cases_labels, out)
         /\ retrieved' = [retrieved EXCEPT ![i] = Append(@, out)]
         /\ k' = NextRetriever(out)
    /\ UNCHANGED <<pc, feature, df, retrievers, i, all_similar_cases,
                   all_augmented_cases, all_similar_cases_labels>>
    /\ UNCHANGED driverVars

\* lines 185-189; an UnboundLocalError of create_augmented_case is not caught
RowEnd ==
    /\ pc = "aug_retrievers"
    /\ k > Len(retrievers)
    /\ LET augmented_case == create_augmented_case(df[i], feature, row_similar_cases)
       IN IF augmented_case = UnboundLocalError
          THEN /\ pc' = UnboundLocalError
               /\ UNCHANGED <<i, all_similar_cases, all_augmented_cases,
                              all_similar_cases_labels>>
          ELSE /\ all_augmented_cases' = Append(all_augmented_cases, augmented_case)
               /\ all_similar_cases' = Append(all_similar_cases, row_similar_cases)
               /\ all_similar_cases_labels' =
                      Append(all_similar_cases_labels, row_similar_cases_labels)
               /\ i' = i + 1
               /\ pc' = "aug_rows"
    /\ UNCHANGED <<feature, df, retrievers, k, row_similar_cases,
                   row_similar_cases_labels, retrieved>>
    /\ UNCHANGED driverVars

\* lines 191-193: the three columns of one row
WithColumns(row, n) ==
    [c \in DOMAIN row \cup {"augmented_cases", "similar_cases", "similar_cases_labels"} |->
        IF c = "augmented_cases" THEN all_augmented_cases[n]
        ELSE IF c = "similar_cases" THEN all_similar_cases[n]
        ELSE IF c = "similar_cases_labels" THEN all_similar_cases_labels[n]
        ELSE row[c]]

\* lines 191-194.  The column assignments change the frame object the caller
\* passed: in do_train_process (dfi in 1..3) that object is the split itself.
AugReturn ==
    /\ pc = "aug_rows"
    /\ i > Len(df)
    /\ df' = [n \in 1..Len(df) |-> WithColumns(df[n], n)]
    /\ train_df' = IF dfi = 1 THEN df' ELSE train_df
    /\ dev_df' = IF dfi = 2 THEN df' ELSE dev_df
    /\ test_df' = IF dfi = 3 THEN df' ELSE test_df
    /\ pc' = "aug_returned"
    /\ UNCHANGED <<feature, retrievers, i, k, row_similar_cases,
                   row_similar_cases_labels, all_similar_cases, all_augmented_cases,
                   all_similar_cases_labels, retrieved>>
    /\ UNCHANGED <<retriever_names, eval_only, retrievers_to_use, dfi, label_encoder,
                   model, trained, predictions, saved>>

\* A direct call augment_with_similar_cases(df, retrievers, config).
InitAug ==
    /\ pc = "aug_call"
    /\ feature \in Features
    /\ df \in Frames({MkRow(t, "ad hominem") : t \in Texts}, MaxRows)
    /\ retrievers \in {[n \in 1..m |-> "retriever"] : m \in 0..MaxRetrievers}
    /\ Len(df) * Len(retrievers) <= MaxCalls
    /\ i = 0
    /\ k = 0
    /\ row_similar_cases = <<>>
    /\ row_similar_cases_labels = <<>>
    /\ all_similar_cases = <<>>
    /\ all_augmented_cases = <<>>
    /\ all_similar_cases_labels = <<>>
    /\ retrieved = <<>>
    /\ retriever_names = <<>>
    /\ eval_only = FALSE
    /\ train_df = <<>>
    /\ dev_df = <<>>
    /\ test_df = <<>>
    /\ retrievers_to_use = <<>>
    /\ dfi = 0
    /\ label_encoder = Unfitted
    /\ model = NoValue
    /\ trained = FALSE
    /\ predictions = NoValue
    /\ saved = NoValue

NextAug == AugBegin \/ RowBegin \/ Retrieve \/ RowEnd \/ AugReturn

SpecAug == InitAug /\ [][NextAug]_vars

-----------------------------------------------------------------------------
(* sklearn.preprocessing.LabelEncoder as do_train_process uses it, lines 268-273 *)

\* The labels in the order Python compares strings.
LabelOrder ==
    <<"ad hominem", "fallacy of slippery slope", "false causality",
      "prejudicial language", "slothful induction">>

Rank(l) == CHOOSE n \in 1..Len(LabelOrder) : LabelOrder[n] = l

RECURSIVE SortedSeq(_)
SortedSeq(S) ==
    IF S = {} THEN <<>>
    ELSE LET m == CHOOSE x \in S : \A y \in S : Rank(x) <= Rank(y)
         IN <<m>> \o SortedSeq(S \ {m})

Column(frame, c) == [n \in 1..Len(frame) |-> frame[n][c]]

Range(s) == {s[n] : n \in 1..Len(s)}

\* fit: classes_ is the sorted array of the distinct labels
fit(labels) == SortedSeq(Range(labels))

Known(classes, l) == \E n \in 1..Len(classes) : classes[n] = l

\* transform: the position of the label in classes_, counted from 0
transform(classes, l) == (CHOOSE n \in 1..Len(classes) : classes[n] = l) - 1

\* inverse_transform: classes_[id]
inverse_transform(classes, id) == classes[id + 1]

-----------------------------------------------------------------------------
(* do_train_process, lines 240-364 *)

\* the mask without its negation
KeepBadClasses(frame) == SelectSeq(frame, LAMBDA row : row.label \in bad_classes)

\* lines 249-251: frame[~frame["label"].isin(bad_classes)]
DropBadClasses(frame) == SelectSeq(frame, LAMBDA row : row.label \notin bad_classes)

\* line 249
FilterTrain ==
    /\ pc = "start"
    /\ train_df' = DropBadClasses(train_df)
    /\ pc' = "filter_dev"
    /\ UNCHANGED <<feature, retriever_names, eval_only, dev_df, test_df,
                   retrievers_to_use, dfi, label_encoder, model, trained,
                   predictions, saved>>
    /\ UNCHANGED augVars

\* line 250
FilterDev ==
    /\ pc = "filter_dev"
    /\ dev_df' = DropBadClasses(dev_df)
    /\ pc' = "filter_test"
    /\ UNCHANGED <<feature, retriever_names, eval_only, train_df, test_df,
                   retrievers_to_use, dfi, label_encoder, model, trained,
                   predictions, saved>>
    /\ UNCHANGED augVars

\* line 251
FilterTest ==
    /\ pc = "filter_test"
    /\ test_df' = DropBadClasses(test_df)
    /\ pc' = "build_retrievers"
    /\ UNCHANGED <<feature, retriever_names, eval_only, train_df, dev_df,
                   retrievers_to_use, dfi, label_encoder, model, trained,
                   predictions, saved>>
    /\ UNCHANGED augVars

\* Every name before the one the loop of line 255 is at has appended one retriever.
NextName == Len(retrievers_to_use) + 1

\* lines 255-258
ConstructRetriever ==
    /\ pc = "build_retrievers"
    /\ NextName <= Len(retriever_names)
    /\ retriever_names[NextName] = "simcse"
    /\ retrievers_to_use' = Append(retrievers_to_use, "SimCSE_Retriever")
    /\ UNCHANGED <<pc, feature, retriever_names, eval_only, train_df, dev_df, test_df,
                   dfi, label_encoder, model, trained, predictions, saved>>
    /\ UNCHANGED augVars

\* lines 259-261: print("retreiver not found"); exit()
RetrieverNotFound ==
    /\ pc = "build_retrievers"
    /\ NextName <= Len(retriever_names)
    /\ retriever_names[NextName] # "simcse"
    /\ pc' = "exited"
    /\ UNCHANGED <<feature>>
    /\ UNCHANGED driverVars
    /\ UNCHANGED augVars

\* line 263
RetrieversBuilt ==
    /\ pc = "build_retrievers"
    /\ NextName > Len(retriever_names)
    /\ dfi' = 1
    /\ pc' = "augment_dfs"
    /\ UNCHANGED <<feature, retriever_names, eval_only, train_df, dev_df, test_df,
                   retrievers_to_use, label_encoder, model, trained, predictions,
                   saved>>
    /\ UNCHANGED augVars

\* dfs_to_process[n], line 263
Split(n) == IF n = 1 THEN train_df ELSE IF n = 2 THEN dev_df ELSE test_df

\* lines 264-265: the call augment_with_similar_cases(df, retrievers_to_use, config)
CallAugment ==
    /\ pc = "augment_dfs"
    /\ dfi <= 3
    /\ df' = Split(dfi)
    /\ retrievers' = retrievers_to_use
    /\ pc' = "aug_call"
    /\ UNCHANGED <<feature, i, k, row_similar_cases, row_similar_cases_labels,
                   all_similar_cases, all_augmented_cases, all_similar_cases_labels,
                   retrieved>>
    /\ UNCHANGED driverVars

\* line 264: the loop goes on with the next frame
AugmentReturned ==
    /\ pc = "aug_returned"
    /\ dfi \in 1..3
    /\ dfi' = dfi + 1
    /\ pc' = "augment_dfs"
    /\ UNCHANGED <<feature, retriever_names, eval_only, train_df, dev_df, test_df,
                   retrievers_to_use, label_encoder, model, trained, predictions,
                   saved>>
    /\ UNCHANGED augVars

\* lines 268-269
FitLabelEncoder ==
    /\ pc = "augment_dfs"
    /\ dfi > 3
    /\ label_encoder' = fit(Column(train_df, "label"))
    /\ pc' = "transform_train"
    /\ UNCHANGED <<feature, retriever_names, eval_only, train_df, dev_df, test_df,
                   retrievers_to_use, dfi, model, trained, predictions, saved>>
    /\ UNCHANGED augVars

\* label_encoder.transform raises ValueError on a label classes_ does not hold
Transformable(frame) == \A n \in 1..Len(frame) : Known(label_encoder, frame[n].label)

Transformed(frame) ==
    [n \in 1..Len(frame) |->
        [frame[n] EXCEPT !.label = transform(label_encoder, frame[n].label)]]

\* line 271
TransformTrain ==
    /\ pc = "transform_train"
    /\ IF Transformable(train_df)
       THEN train_df' = Transformed(train_df) /\ pc' = "transform_dev"
       ELSE pc' = ValueError /\ UNCHANGED train_df
    /\ UNCHANGED <<feature, retriever_names, eval_only, dev_df, test_df,
                   retrievers_to_use, dfi, label_encoder, model, trained,
                   predictions, saved>>
    /\ UNCHANGED augVars

\* line 272
TransformDev ==
    /\ pc = "transform_dev"
    /\ IF Transformable(dev_df)
       THEN dev_df' = Transformed(dev_df) /\ pc' = "transform_test"
       ELSE pc' = ValueError /\ UNCHANGED dev_df
    /\ UNCHANGED <<feature, retriever_names, eval_only, train_df, test_df,
                   retrievers_to_use, dfi, label_encoder, model, trained,
                   predictions, saved>>
    /\ UNCHANGED augVars

\* line 273
TransformTest ==
    /\ pc = "transform_test"
    /\ IF Transformable(test_df)
       THEN test_df' = Transformed(test_df) /\ pc' = "load_model"
       ELSE pc' = ValueError /\ UNCHANGED test_df
    /\ UNCHANGED <<feature, retriever_names, eval_only, train_df, dev_df,
                   retrievers_to_use, dfi, label_encoder, model, trained,
                   predictions, saved>>
    /\ UNCHANGED augVars

\* lines 283-293
LoadModel ==
    /\ pc = "load_model"
    /\ model' = IF eval_only
                THEN [from |-> "model_dir"]
                ELSE [from |-> "howey/electra-base-mnli", num_labels |-> Len(label_encoder)]
    /\ pc' = "train"
    /\ UNCHANGED <<feature, retriever_names, eval_only, train_df, dev_df, test_df,
                   retrievers_to_use, dfi, label_encoder, trained, predictions,
                   saved>>
    /\ UNCHANGED augVars

\* lines 352-358
Train ==
    /\ pc = "train"
    /\ trained' = ~eval_only
    /\ pc' = "predict"
    /\ UNCHANGED <<feature, retriever_names, eval_only, train_df, dev_df, test_df,
                   retrievers_to_use, dfi, label_encoder, model, predictions, saved>>
    /\ UNCHANGED augVars

\* line 360
Predict ==
    /\ pc = "predict"
    /\ predictions' = [rows |-> Len(test_df)]
    /\ pc' = "save_results"
    /\ UNCHANGED <<feature, retriever_names, eval_only, train_df, dev_df, test_df,
                   retrievers_to_use, dfi, label_encoder, model, trained, saved>>
    /\ UNCHANGED augVars

\* lines 362-364 and save_results, lines 216-237
SaveResults ==
    /\ pc = "save_results"
    /\ saved' = [label_encoder |-> label_encoder,
                 predictions |-> predictions,
                 text |-> Column(test_df, "text"),
                 augmented_cases |-> Column(test_df, "augmented_cases"),
                 similar_cases |-> Column(test_df, "similar_cases"),
                 similar_cases_labels |-> Column(test_df, "similar_cases_labels")]
    /\ pc' = "done"
    /\ UNCHANGED <<feature, retriever_names, eval_only, train_df, dev_df, test_df,
                   retrievers_to_use, dfi, label_encoder, model, trained,
                   predictions>>
    /\ UNCHANGED augVars

\* labels the rows of the csv files carry
LabelPool == {"ad hominem", "false causality", "slothful induction", "prejudicial language"}

RawRows == {MkRow(<<"q1">>, l) : l \in LabelPool}

\* the state when do_train_process has read train.csv, dev.csv and test.csv (lines 244-246)
Init ==
    /\ pc = "start"
    /\ feature \in Features
    /\ retriever_names \in SeqsUpTo({"simcse", "bm25"}, MaxRetrievers)
    /\ eval_only \in BOOLEAN
    /\ train_df \in Frames(RawRows, MaxRawRows)
    /\ dev_df \in Frames(RawRows, MaxRawRows - Len(train_df))
    /\ test_df \in Frames(RawRows, MaxRawRows - Len(train_df) - Len(dev_df))
    /\ (Len(train_df) + Len(dev_df) + Len(test_df)) * Len(retriever_names) <= MaxDriverCalls
    /\ retrievers_to_use = <<>>
    /\ dfi = 0
    /\ df = <<>>
    /\ retrievers = <<>>
    /\ i = 0
    /\ k = 0
    /\ row_similar_cases = <<>>
    /\ row_similar_cases_labels = <<>>
    /\ all_similar_cases = <<>>
    /\ all_augmented_cases = <<>>
    /\ all_similar_cases_labels = <<>>
    /\ retrieved = <<>>
    /\ label_encoder = Unfitted
    /\ model = NoValue
    /\ trained = FALSE
    /\ predictions = NoValue
    /\ saved = NoValue

Next ==
    \/ FilterTrain \/ FilterDev \/ FilterTest
    \/ ConstructRetriever \/ RetrieverNotFound \/ RetrieversBuilt
    \/ CallAugment \/ AugBegin \/ RowBegin \/ Retrieve \/ RowEnd \/ AugReturn
    \/ AugmentReturned
    \/ FitLabelEncoder \/ TransformTrain \/ TransformDev \/ TransformTest
    \/ LoadModel \/ Train \/ Predict \/ SaveResults

Spec == Init /\ [][Next]_vars

-----------------------------------------------------------------------------
(* What the claims speak of *)

\* rows of df whose loop iteration (lines 158-189) is complete
Finished == 1..Len(all_augmented_cases)

RaisedOn(j) == \E n \in 1..Len(retrieved[j]) : retrieved[j][n].raised

\* the call returned a list of dicts that each hold both keys
WellFormed(out) ==
    /\ ~out.raised
    /\ \A n \in 1..Len(out.items) :
          DOMAIN out.items[n] = {"similar_case", "similar_case_label"}

\* the cases a call hands over: none when it raised or when its list cannot be read
CasesIn(out) ==
    IF out.raised THEN <<>>
    ELSE IF \E n \in 1..Len(out.items) : "similar_case" \notin DOMAIN out.items[n]
    THEN <<>>
    ELSE [n \in 1..Len(out.items) |-> out.items[n].similar_case]

\* the labels a call hands over
LabelsIn(out) ==
    IF out.raised THEN <<>>
    ELSE IF \E n \in 1..Len(out.items) :
               ~({"similar_case", "similar_case_label"} \subseteq DOMAIN out.items[n])
    THEN <<>>
    ELSE [n \in 1..Len(out.items) |-> out.items[n].similar_case_label]

RECURSIVE Concat(_)
Concat(seqs) ==
    IF seqs = <<>> THEN <<>>
    ELSE Concat(SubSeq(seqs, 1, Len(seqs) - 1)) \o seqs[Len(seqs)]

ExpectedCases(outs) == Concat([n \in 1..Len(outs) |-> CasesIn(outs[n])])

ExpectedLabels(outs) == Concat([n \in 1..Len(outs) |-> LabelsIn(outs[n])])

Sep == <<" ", "[SEP]", " ">>

\* lead, c1, lead, c2, ..., lead, cn
RECURSIVE Led(_, _)
Led(cases, lead) ==
    IF cases = <<>> THEN <<>>
    ELSE Led(SubSeq(cases, 1, Len(cases) - 1), lead) \o lead \o cases[Len(cases)]

ExpectedAugmented(row, feat, cases) ==
    IF feat \in {"text", "explanations", "goals"}
    THEN row.text \o Led(cases, Sep)
    ELSE row.text \o Led(cases, Sep \o row[feat] \o Sep)

IsPrefix(s, t) == Len(s) <= Len(t) /\ SubSeq(t, 1, Len(s)) = s

Augmented(row) == "augmented_cases" \in DOMAIN row

-----------------------------------------------------------------------------
(* C1 *)

\* C1: a retriever raising on one row neither ends the call nor changes any other
\* row: with a feature mode of the template the call never stops before it has
\* returned, the frame it returns holds the three columns for every one of its
\* rows, and every row on which no retriever raised holds exactly the cases, labels
\* and augmented text of the run without failures (those its own retrievers'
\* results give).
C1_FailureIsolated ==
    /\ feature \in Modes => (pc = "aug_returned" \/ ENABLED NextAug)
    /\ pc = "aug_returned" =>
          /\ Len(retrieved) = Len(df)
          /\ \A j \in 1..Len(df) :
                /\ Augmented(df[j])
                /\ Len(retrieved[j]) = Len(retrievers)
                /\ ~RaisedOn(j) =>
                      /\ df[j].similar_cases = ExpectedCases(retrieved[j])
                      /\ df[j].similar_cases_labels = ExpectedLabels(retrieved[j])
                      /\ df[j].augmented_cases =
                            ExpectedAugmented(df[j], feature, ExpectedCases(retrieved[j]))

\* the call returned two or more rows, a retriever raised on exactly one of them
\* and another row holds retrieved cases
C1_Witness ==
    /\ pc = "aug_returned"
    /\ Len(df) >= 2
    /\ Cardinality({j \in 1..Len(df) : RaisedOn(j)}) = 1
    /\ \E j \in 1..Len(df) : ~RaisedOn(j) /\ Len(df[j].similar_cases) = 2

-----------------------------------------------------------------------------
(* C2 *)

\* every call made for the row raised or returned a well-formed list
RaisedOrWellFormed(outs) ==
    \A n \in 1..Len(outs) : outs[n].raised \/ WellFormed(outs[n])

\* the cases of the calls that did not raise, in the order of the calls
KeptCases(outs) ==
    Concat([n \in 1..Len(outs) |->
              IF outs[n].raised THEN <<>>
              ELSE [m \in 1..Len(outs[n].items) |-> outs[n].items[m].similar_case]])

KeptLabels(outs) ==
    Concat([n \in 1..Len(outs) |->
              IF outs[n].raised THEN <<>>
              ELSE [m \in 1..Len(outs[n].items) |-> outs[n].items[m].similar_case_label]])

\* C2: when a retriever raises for a row, it adds no case and no label to the row,
\* and the row keeps the cases and labels of every other retriever of the list,
\* those called before it and those called after it, in the order of the list:
\* every retriever of the list is called for a finished row, and the row's cases
\* and labels are those of the calls that returned, concatenated in call order.
\* The same holds of the accumulators while the row is in progress.
C2_RaiseAddsNothing ==
    /\ \A j \in Finished :
          /\ Len(retrieved[j]) = Len(retrievers)
          /\ (RaisedOn(j) /\ RaisedOrWellFormed(retrieved[j])) =>
                /\ all_similar_cases[j] = KeptCases(retrieved[j])
                /\ all_similar_cases_labels[j] = KeptLabels(retrieved[j])
    /\ (pc = "aug_retrievers" /\ RaisedOn(i) /\ RaisedOrWellFormed(retrieved[i])) =>
          /\ row_similar_cases = KeptCases(retrieved[i])
          /\ row_similar_cases_labels = KeptLabels(retrieved[i])

\* a finished row of three retrievers: the second raised, the first and the third
\* returned two cases each
C2_Witness ==
    \E j \in Finished :
        /\ Len(retrieved[j]) = 3
        /\ retrieved[j][2].raised
        /\ WellFormed(retrieved[j][1]) /\ Len(retrieved[j][1].items) = 2
        /\ WellFormed(retrieved[j][3]) /\ Len(retrieved[j][3].items) = 2
        /\ Len(all_similar_cases[j]) = 4

-----------------------------------------------------------------------------
(* C3 *)

\* the call raised or returned an empty list
NothingRetrieved(out) == out.raised \/ Len(out.items) = 0

\* C3: with any of the five feature modes, a row for which every retriever raised
\* or returned no case gets its own text as augmented text, nothing appended; so
\* does any row that create_augmented_case is given with no similar case.
C3_NoCasesKeepsText ==
    feature \in Modes =>
        /\ \A j \in Finished :
              (\A n \in 1..Len(retrieved[j]) : NothingRetrieved(retrieved[j][n])) =>
                  /\ all_augmented_cases[j] = df[j].text
                  /\ all_similar_cases[j] = <<>>
        /\ \A j \in 1..Len(df) : create_augmented_case(df[j], feature, <<>>) = df[j].text
        /\ pc = "aug_returned" =>
              \A j \in 1..Len(df) :
                  (\A n \in 1..Len(retrieved[j]) : NothingRetrieved(retrieved[j][n])) =>
                      df[j].augmented_cases = df[j].text

\* a finished row whose two retrievers gave nothing: one raised, one returned []
C3_Witness ==
    /\ feature \in Modes
    /\ \E j \in Finished :
          /\ Len(retrieved[j]) = 2
          /\ retrieved[j][1].raised
          /\ ~retrieved[j][2].raised /\ Len(retrieved[j][2].items) = 0

-----------------------------------------------------------------------------
(* C4 *)

\* C4: with feature mode text, explanations or goals the augmented text of a row
\* is its text followed, for each retrieved case in order, by " [SEP] " and the
\* case; with cases [B, A] it is "{text} [SEP] B [SEP] A", and the value of the
\* row's feature field is not part of it.
C4_TextTemplate ==
    feature \in {"text", "explanations", "goals"} =>
        /\ \A j \in Finished :
              /\ all_augmented_cases[j] = df[j].text \o Led(all_similar_cases[j], Sep)
              /\ all_similar_cases[j] = << <<"B">>, <<"A">> >> =>
                    all_augmented_cases[j] =
                        df[j].text \o <<" ", "[SEP]", " ", "B", " ", "[SEP]", " ", "A">>
        /\ \A j \in 1..Len(df) :
              create_augmented_case(df[j], feature, << <<"A">>, <<"B">> >>) =
                  df[j].text \o <<" ", "[SEP]", " ", "A", " ", "[SEP]", " ", "B">>

\* a finished row of a text mode that holds the cases [B, A]
C4_Witness ==
    /\ feature \in {"text", "explanations", "goals"}
    /\ \E j \in Finished : all_similar_cases[j] = << <<"B">>, <<"A">> >>

-----------------------------------------------------------------------------
(* C5 *)

\* C5: with feature mode structure or counter the augmented text of a row is its
\* text followed, for each retrieved case in order, by " [SEP] ", the row's own
\* feature value F, " [SEP] " and the case; with cases [B, A] it is
\* "{text} [SEP] F [SEP] B [SEP] F [SEP] A".
C5_FeatureTemplate ==
    feature \in {"structure", "counter"} =>
        /\ \A j \in Finished :
              /\ all_augmented_cases[j] =
                    df[j].text \o Led(all_similar_cases[j], Sep \o df[j][feature] \o Sep)
              /\ all_similar_cases[j] = << <<"B">>, <<"A">> >> =>
                    all_augmented_cases[j] =
                        df[j].text \o <<" ", "[SEP]", " ">> \o df[j][feature]
                                   \o <<" ", "[SEP]", " ", "B", " ", "[SEP]", " ">>
                                   \o df[j][feature] \o <<" ", "[SEP]", " ", "A">>
        /\ \A j \in 1..Len(df) :
              create_augmented_case(df[j], feature, << <<"A">>, <<"B">> >>) =
                  df[j].text \o <<" ", "[SEP]", " ">> \o df[j][feature]
                             \o <<" ", "[SEP]", " ", "A", " ", "[SEP]", " ">>
                             \o df[j][feature] \o <<" ", "[SEP]", " ", "B">>

\* a finished row of a feature mode that holds the cases [B, A]
C5_Witness ==
    /\ feature \in {"structure", "counter"}
    /\ \E j \in Finished : all_similar_cases[j] = << <<"B">>, <<"A">> >>

-----------------------------------------------------------------------------
(* C6 *)

\* C6: with any of the five feature modes and whatever the retrievers did, every
\* row the loop has gone through has an augmented text, that text starts with the
\* row's text, and the call never stops on an error.
C6_TextIsPrefix ==
    feature \in Modes =>
        /\ pc # UnboundLocalError
        /\ pc \in {"aug_rows", "aug_retrievers"} => Len(all_augmented_cases) = i - 1
        /\ pc = "aug_returned" => Len(all_augmented_cases) = Len(df)
        /\ \A j \in Finished : IsPrefix(df[j].text, all_augmented_cases[j])
        /\ pc = "aug_returned" =>
              \A j \in 1..Len(df) : IsPrefix(df[j].text, df[j].augmented_cases)

\* a finished row with retrieved cases whose augmented text is longer than its text,
\* after a call that raised
C6_Witness ==
    /\ feature \in Modes
    /\ \E j \in Finished :
          /\ RaisedOn(j)
          /\ Len(all_similar_cases[j]) > 0
          /\ Len(all_augmented_cases[j]) > Len(df[j].text)

-----------------------------------------------------------------------------
(* C7 *)

\* C7: the cases of a row are the cases its retrievers handed over, retriever
\* after retriever in list order and each retriever's in the order it returned
\* them, with nothing moved, dropped or merged; the augmented text lists them in
\* that order.
C7_ConcatenatedInOrder ==
    \A j \in Finished :
        /\ all_similar_cases[j] = ExpectedCases(retrieved[j])
        /\ feature \in Modes =>
              all_augmented_cases[j] =
                  ExpectedAugmented(df[j], feature, ExpectedCases(retrieved[j]))

\* a finished row whose two retrievers both returned [B, A]: the row holds B, A, B, A
C7_Witness ==
    \E j \in Finished :
        /\ Len(retrieved[j]) = 2
        /\ retrieved[j][1] = Returned(<<ItemB, ItemA>>)
        /\ retrieved[j][2] = Returned(<<ItemB, ItemA>>)
        /\ all_similar_cases[j] = << <<"B">>, <<"A">>, <<"B">>, <<"A">> >>

-----------------------------------------------------------------------------
(* C10 *)

\* the (case, label) pairs the calls made for a row returned
PairsOf(outs) ==
    UNION {{<<it.similar_case, it.similar_case_label>> : it \in Range(outs[n].items)} :
              n \in {m \in 1..Len(outs) : WellFormed(outs[m])}}

\* C10: whatever the retrievers did (a call raising, or the unpacking of what it
\* returned failing on a missing key), a row's cases and labels have the same
\* length and the label at each position is the label returned with the case at
\* that position.
C10_CasesAndLabelsAligned ==
    /\ \A j \in Finished :
          /\ Len(all_similar_cases[j]) = Len(all_similar_cases_labels[j])
          /\ \A n \in 1..Len(all_similar_cases[j]) :
                <<all_similar_cases[j][n], all_similar_cases_labels[j][n]>>
                    \in PairsOf(retrieved[j])
    /\ pc = "aug_retrievers" => Len(row_similar_cases) = Len(row_similar_cases_labels)

-----------------------------------------------------------------------------
(* C8 *)

NothingComputed ==
    /\ \A n \in 1..3 : \A m \in 1..Len(Split(n)) : ~Augmented(Split(n)[m])
    /\ all_augmented_cases = <<>>
    /\ retrieved = <<>>
    /\ label_encoder = Unfitted
    /\ model = NoValue
    /\ ~trained
    /\ predictions = NoValue
    /\ saved = NoValue

\* C8: when config.retrievers holds a name other than "simcse", at whatever
\* position, no retriever is ever constructed, no row augmented, no label encoded,
\* no model loaded or trained, nothing predicted or saved.
C8_NothingBeforeExit ==
    (\E n \in 1..Len(retriever_names) : retriever_names[n] # "simcse") =>
        /\ retrievers_to_use = <<>>
        /\ NothingComputed

-----------------------------------------------------------------------------
(* C9 *)

NoBadClass(frame) == \A n \in 1..Len(frame) : frame[n].label \notin bad_classes

\* from the end of the filtering to the first encoding: the labels are still strings
FilteredNotEncoded ==
    pc \in {"build_retrievers", "exited", "augment_dfs", "aug_call", "aug_rows",
            "aug_retrievers", "aug_returned", UnboundLocalError, "transform_train"}

Fitted == label_encoder # Unfitted

\* C9: from the end of the filtering until the encoder is fitted and the first
\* label encoded, no split holds a row of a bad class; the encoder is fitted after
\* the filtering, its classes are the labels of the filtered training split, each
\* once and in sorted order, and it never changes afterwards; every class is
\* encoded to its position counted from 0 and decoded back to itself; and each
\* split's encoded labels decode back to the labels the rows had.
C9_State ==
    /\ FilteredNotEncoded =>
          NoBadClass(train_df) /\ NoBadClass(dev_df) /\ NoBadClass(test_df)
    /\ Fitted => pc \notin {"start", "filter_dev", "filter_test", "build_retrievers"}
    /\ pc = "transform_train" =>
          /\ Fitted
          /\ Range(label_encoder) = Range(Column(train_df, "label"))
          /\ \A n \in 1..(Len(label_encoder) - 1) :
                Rank(label_encoder[n]) < Rank(label_encoder[n + 1])
    /\ Fitted =>
          \A n \in 1..Len(label_encoder) :
              /\ label_encoder[n] \notin bad_classes
              /\ transform(label_encoder, label_encoder[n]) = n - 1
              /\ inverse_transform(label_encoder,
                                   transform(label_encoder, label_encoder[n]))
                     = label_encoder[n]

Decodes(before, after) ==
    /\ Len(after) = Len(before)
    /\ \A n \in 1..Len(before) :
          inverse_transform(label_encoder, after[n].label) = before[n].label

C9_Step ==
    /\ Fitted => label_encoder' = label_encoder
    /\ (pc = "transform_train" /\ pc' = "transform_dev") => Decodes(train_df, train_df')
    /\ (pc = "transform_dev" /\ pc' = "transform_test") => Decodes(dev_df, dev_df')
    /\ (pc = "transform_test" /\ pc' = "load_model") => Decodes(test_df, test_df')

C9_LabelsRoundTrip == []C9_State /\ [][C9_Step]_vars

\* the run is over: the training split held "false causality", a row of a bad
\* class (row 1 of the file, dropped) and "ad hominem"; the encoder holds the two
\* classes sorted and the two rows left carry the ids 1 and 0
C9_Witness ==
    /\ pc = "done"
    /\ label_encoder = <<"ad hominem", "false causality">>
    /\ Column(train_df, "index") = <<0, 2>>
    /\ Column(train_df, "label") = <<1, 0>>

=============================================================================
